---- MODULE Spec2Model ----
(***************************************************************************)
(* FileTree Exporter (src/src/extension.ts): the ignore-pattern matcher,   *)
(* the recursive directory walk and the multi-root export command.         *)
(*                                                                         *)
(* Strings are sequences of one-character strings, so that startsWith,     *)
(* endsWith, includes, replace and the regular-expression search are       *)
(* computed character by character as the code computes them.              *)
(***************************************************************************)
EXTENDS Integers, Sequences, FiniteSets, TLC

(***************************************************************************)
(* Bounds of the model                                                     *)
(***************************************************************************)
\* longest relative path given to the matcher in SpecMatch
MaxPathLen == 3
\* longest pattern given to the matcher in SpecMatch
MaxPatLen == 3
\* most workspace folders of one export invocation
MaxRoots == 2

\* characters of entry names; "/" joins them into relative paths
NameChars == {"a", "b", "."}
PathChars == NameChars \cup {"/"}
\* characters of ignore patterns: literals, the regular-expression
\* metacharacters "." and "(", the wildcard "*" and the separator "/"
PatChars == {"a", "b", ".", "/", "*", "("}

\* all sequences over S of length at most n
RECURSIVE SeqsUpTo(_, _)
SeqsUpTo(S, n) ==
  IF n = 0 THEN {<<>>}
  ELSE LET shorter == SeqsUpTo(S, n - 1)
       IN  shorter \cup {Append(s, c) : s \in {t \in shorter : Len(t) = n - 1}, c \in S}

(***************************************************************************)
(* String primitives of the JavaScript runtime                             *)
(***************************************************************************)
StartsWith(s, p) == Len(p) <= Len(s) /\ SubSeq(s, 1, Len(p)) = p

EndsWith(s, p) == Len(p) <= Len(s) /\ SubSeq(s, Len(s) - Len(p) + 1, Len(s)) = p

Includes(s, c) == \E k \in 1..Len(s) : s[k] = c

\* pattern.slice(0, -1)
SliceDropLast(s) == SubSeq(s, 1, Len(s) - 1)

(***************************************************************************)
(* The wildcard branch: RegExp built from the pattern, stars replaced      *)
(***************************************************************************)
\* pattern.replace: every "*" becomes the two characters "." and "*"
RECURSIVE ReplaceStar(_)
ReplaceStar(pattern) ==
  IF pattern = <<>> THEN <<>>
  ELSE (IF Head(pattern) = "*" THEN <<".", "*">> ELSE <<Head(pattern)>>)
         \o ReplaceStar(Tail(pattern))

\* The RegExp constructor on a source over PatChars: a sequence of atoms
\* [any, ch, star], or the SyntaxError the constructor throws.  "." is the
\* any-character atom, "*" quantifies the atom before it (nothing to repeat
\* when there is none or when it follows another quantifier), "(" opens a
\* group that no character of PatChars can close (unterminated group).
RECURSIVE Compile(_, _)
Compile(source, atoms) ==
  IF source = <<>> THEN [ok |-> TRUE, atoms |-> atoms]
  ELSE LET c == Head(source) IN
       IF c = "(" THEN [ok |-> FALSE, atoms |-> <<>>]
       ELSE IF c = "*" THEN
         IF atoms = <<>> \/ atoms[Len(atoms)].star
         THEN [ok |-> FALSE, atoms |-> <<>>]
         ELSE Compile(Tail(source),
                      [atoms EXCEPT ![Len(atoms)] = [@ EXCEPT !.star = TRUE]])
       ELSE Compile(Tail(source),
                    Append(atoms, [any |-> (c = "."), ch |-> c, star |-> FALSE]))

NewRegExp(source) == Compile(source, <<>>)

AtomMatches(atom, c) == atom.any \/ atom.ch = c

\* the atoms from index k on match a prefix of s that starts at position j
RECURSIVE MatchFrom(_, _, _, _)
MatchFrom(atoms, k, s, j) ==
  IF k > Len(atoms) THEN TRUE
  ELSE IF atoms[k].star
       THEN \/ MatchFrom(atoms, k + 1, s, j)
            \/ /\ j <= Len(s)
               /\ AtomMatches(atoms[k], s[j])
               /\ MatchFrom(atoms, k, s, j + 1)
       ELSE /\ j <= Len(s)
            /\ AtomMatches(atoms[k], s[j])
            /\ MatchFrom(atoms, k + 1, s, j + 1)

\* regex.test(s) without the sticky or global flag: a search from any position
RegexTestAtStart(atoms, s) == MatchFrom(atoms, 1, s, 1)

RegexTest(atoms, s) == \E j \in 1..(Len(s) + 1) : MatchFrom(atoms, 1, s, j)

(***************************************************************************)
(* shouldIgnorePath                                                        *)
(***************************************************************************)
\* the directory-pattern branch
DirectoryPatternPrefixOnly(relativePath, pattern) ==
  StartsWith(relativePath, pattern)

DirectoryPattern(relativePath, pattern) ==
  \/ StartsWith(relativePath, pattern)
  \/ StartsWith(relativePath, SliceDropLast(pattern))

\* the exact-or-prefix branch
ExactPattern(relativePath, pattern) ==
  relativePath = pattern \/ StartsWith(relativePath, pattern \o <<"/">>)

\* the callback of ignorePatterns.some: "true", "false", or "throw" when the
\* RegExp constructor throws
PatternCallback(relativePath, pattern) ==
  IF EndsWith(pattern, <<"/">>)
  THEN IF DirectoryPattern(relativePath, pattern) THEN "true" ELSE "false"
  ELSE IF Includes(pattern, "*")
       THEN LET regex == NewRegExp(ReplaceStar(pattern)) IN
            IF ~regex.ok THEN "throw"
            ELSE IF RegexTest(regex.atoms, relativePath) THEN "true" ELSE "false"
       ELSE IF ExactPattern(relativePath, pattern) THEN "true" ELSE "false"

\* Array.prototype.some: the patterns in order, stopping at the first true
\* and at the first exception
RECURSIVE ShouldIgnorePath(_, _)
ShouldIgnorePath(relativePath, ignorePatterns) ==
  IF ignorePatterns = <<>> THEN "false"
  ELSE LET r == PatternCallback(relativePath, Head(ignorePatterns)) IN
       IF r = "false" THEN ShouldIgnorePath(relativePath, Tail(ignorePatterns))
       ELSE r

(***************************************************************************)
(* loadIgnorePatterns: split, trim, filter                                 *)
(***************************************************************************)
\* content.split on an optional carriage return followed by a newline
RECURSIVE SplitLines(_, _)
SplitLines(content, line) ==
  IF content = <<>> THEN <<line>>
  ELSE IF Head(content) = "\n"
       THEN <<line>> \o SplitLines(Tail(content), <<>>)
  ELSE IF Head(content) = "\r" /\ Len(content) >= 2 /\ content[2] = "\n"
       THEN <<line>> \o SplitLines(Tail(Tail(content)), <<>>)
  ELSE SplitLines(Tail(content), Append(line, Head(content)))

WhiteSpace == {" ", "\r", "\n", "\t"}

RECURSIVE TrimStart(_)
TrimStart(s) ==
  IF s # <<>> /\ Head(s) \in WhiteSpace THEN TrimStart(Tail(s)) ELSE s

RECURSIVE TrimEnd(_)
TrimEnd(s) ==
  IF s # <<>> /\ s[Len(s)] \in WhiteSpace THEN TrimEnd(SliceDropLast(s)) ELSE s

\* line.trim()
Trim(s) == TrimEnd(TrimStart(s))

IsPatternLine(line) == line # <<>> /\ ~StartsWith(line, <<"#">>)

\* the lines of the file, trimmed, without blank lines and comments
ParsePatterns(content) ==
  LET lines == SplitLines(content, <<>>)
      trimmed == [k \in 1..Len(lines) |-> Trim(lines[k])]
  IN  SelectSeq(trimmed, IsPatternLine)

(***************************************************************************)
(* The file system the command runs on                                     *)
(***************************************************************************)
NameA == <<"a">>
NameB == <<"b">>
NameAB == <<"a", "b">>
NameADotB == <<"a", ".", "b">>

File(n) == [name |-> n, isDirectory |-> FALSE]
Dir(n) == [name |-> n, isDirectory |-> TRUE]

\* root/{a.b, b/{a}}: the tree of the worked example, a.txt and b/{c.txt}
TreeExample ==
  (<<>> :> <<File(NameADotB), Dir(NameB)>>) @@
  (<<NameB>> :> <<File(NameA)>>)

\* root/{b, a/{a, b/{a}, ab}, ab/{}, a.b}: a directory two levels down with
\* siblings listed before and after it
TreeDeep ==
  (<<>> :> <<File(NameB), Dir(NameA), Dir(NameAB), File(NameADotB)>>) @@
  (<<NameA>> :> <<File(NameA), Dir(NameB), File(NameAB)>>) @@
  (<<NameA, NameB>> :> <<File(NameA)>>) @@
  (<<NameAB>> :> <<>>)

TreeEmpty == (<<>> :> <<>>)

Trees == {TreeExample, TreeDeep, TreeEmpty}

\* contents of .filetreeignore found in a workspace folder
IgnoreEmpty == <<>>
\* "# a", CRLF, blank line, " a/ ": a comment, a directory pattern to trim
IgnoreDirPattern ==
  <<"#", " ", "a", "\r", "\n", "\r", "\n", " ", "a", "/", " ", "\n">>
\* "*.b" and "a/b": a wildcard pattern and an exact pattern with a separator
IgnoreWildcard == <<"*", ".", "b", "\n", "a", "/", "b">>
\* "b" and "*(": an exact pattern, then a wildcard that is no valid RegExp
IgnoreBadRegExp == <<"b", "\n", "*", "(", "\n">>

IgnoreFiles == {IgnoreEmpty, IgnoreDirPattern, IgnoreWildcard, IgnoreBadRegExp}

\* DEFAULT_FILETREEIGNORE_CONTENT, reduced to one line of each kind it has:
\* a comment, a blank line, a directory pattern ("node_modules/"), a wildcard
\* ("*.log") and an exact name (".env")
DEFAULT_FILETREEIGNORE_CONTENT ==
  <<"#", " ", "a", "\n", "\n", "b", "/", "\n", "*", ".", "a", "\n", ".", "a", "\n">>

Absent == "absent"

\* path separators of the host: path.join and path.relative use the host's
Separators == {"/", "\\"}

(***************************************************************************)
(* Paths                                                                   *)
(***************************************************************************)
\* the names of a path joined by a separator
RECURSIVE JoinNames(_, _)
JoinNames(names, sep) ==
  IF names = <<>> THEN <<>>
  ELSE IF Len(names) = 1 THEN names[1]
  ELSE names[1] \o <<sep>> \o JoinNames(Tail(names), sep)

\* .replace of every backslash by a slash
RECURSIVE ReplaceBackslash(_)
ReplaceBackslash(s) ==
  IF s = <<>> THEN <<>>
  ELSE <<IF Head(s) = "\\" THEN "/" ELSE Head(s)>> \o ReplaceBackslash(Tail(s))

\* the entry's name alone, in place of its path from the root
EntryNameOnly(dirPath, name, hostSep) == name

\* path.relative(rootPath, path.join(dirPath, entry.name)), normalised;
\* dirPath is the list of names from the root down to the directory
EntryRelativePath(dirPath, name, hostSep) ==
  ReplaceBackslash(JoinNames(Append(dirPath, name), hostSep))

\* indent + "  "
DeeperIndent(indent) == indent \o <<" ", " ">>

\* `${indent}${entry.name}`
EntryLine(indent, name) == [kind |-> "entry", indent |-> indent, text |-> name]

\* the error line at the indent of the directory's own line
ErrorLineSameIndent(indent, dirPath, hostSep) ==
  [kind |-> "error", indent |-> indent, text |-> JoinNames(dirPath, hostSep)]

\* `${indent}  [Error reading directory: ${errorMessage}]`; the message of
\* the rethrown error names the directory that could not be read
ErrorLine(indent, dirPath, hostSep) ==
  [kind |-> "error", indent |-> DeeperIndent(indent),
   text |-> JoinNames(dirPath, hostSep)]

(***************************************************************************)
(* State                                                                   *)
(***************************************************************************)
VARIABLES
  folders,        \* number of workspace folders of the invocation
  sep,            \* the host's path separator
  pc,             \* where extractFileStructure is
  i,              \* index of the workspace folder being processed, from 1
  tree,           \* the directories of folder i, by path from the folder
  ignoreFile,     \* .filetreeignore of folder i: [exists, content]
  ignorePatterns, \* the patterns loaded for folder i
  stack,          \* the activations of getAllFilesAndFolders, outermost first
  inflight,       \* directory listings requested and not yet answered
  results,        \* extractFileStructure's results array
  output,         \* the output file: [written, sections]
  log,            \* what has happened while folder i was processed
  mPath,          \* SpecMatch: the relative path handed to the matcher
  mPatterns,      \* SpecMatch: the pattern list handed to the matcher
  mResult         \* SpecMatch: what the matcher answered, "none" before

walkVars == <<folders, sep, pc, i, tree, ignoreFile, ignorePatterns, stack,
              inflight, results, output, log>>
matchVars == <<mPath, mPatterns, mResult>>
vars == <<walkVars, matchVars>>

FileStates ==
  {[exists |-> FALSE, content |-> <<>>]} \cup
  {[exists |-> TRUE, content |-> c] : c \in IgnoreFiles}

\* what is recorded of a folder's processing
NewLogEntry(t, f) ==
  [tree |-> t, fileFound |-> f.exists, created |-> FALSE, readFailed |-> FALSE,
   loaded |-> FALSE, patterns |-> <<>>, listed |-> {}, failed |-> {},
   emitted |-> {}, visited |-> {}, matcherThrew |-> FALSE]

\* an activation of getAllFilesAndFolders
NewFrame(dirPath, indent) ==
  [dirPath |-> dirPath, indent |-> indent, entries |-> <<>>, idx |-> 1,
   result |-> <<>>, pc |-> "call"]

\* a structure pushed without its banner
TreeSectionNoBanner(n, k, structure) ==
  [banner |-> <<>>, kind |-> "tree", body |-> structure, cause |-> "none"]

\* results.push of a folder's structure, with the banner in a multi-root
\* workspace
TreeSection(n, k, structure) ==
  [banner |-> IF n > 1 THEN <<k>> ELSE <<>>, kind |-> "tree",
   body |-> structure, cause |-> "none"]

\* results.push of a folder's error, with the banner in a multi-root workspace
ErrorSection(n, k, cause) ==
  [banner |-> IF n > 1 THEN <<k>> ELSE <<>>, kind |-> "error",
   body |-> <<>>, cause |-> cause]

Init ==
  /\ folders \in 0..MaxRoots
  /\ sep \in Separators
  /\ pc = "start"
  /\ i = 0
  /\ tree = TreeEmpty
  /\ ignoreFile = [exists |-> FALSE, content |-> <<>>]
  /\ ignorePatterns = <<>>
  /\ stack = <<>>
  /\ inflight = 0
  /\ results = <<>>
  /\ output = [written |-> FALSE, sections |-> <<>>]
  /\ log = NewLogEntry(TreeEmpty, [exists |-> FALSE, content |-> <<>>])
  /\ mPath = <<>>
  /\ mPatterns = <<>>
  /\ mResult = "none"

(***************************************************************************)
(* extractFileStructure                                                    *)
(***************************************************************************)
\* no workspace folder is open: an error message, nothing else
NoWorkspace ==
  /\ pc = "start"
  /\ folders = 0
  /\ pc' = "done"
  /\ UNCHANGED <<folders, sep, i, tree, ignoreFile, ignorePatterns, stack,
                 inflight, results, output, log, matchVars>>

\* the input box is dismissed
Cancelled ==
  /\ pc = "start"
  /\ folders > 0
  /\ pc' = "done"
  /\ UNCHANGED <<folders, sep, i, tree, ignoreFile, ignorePatterns, stack,
                 inflight, results, output, log, matchVars>>

\* a file name is entered: the loop over the workspace folders starts
Begin ==
  /\ pc = "start"
  /\ folders > 0
  /\ pc' = "next"
  /\ UNCHANGED <<folders, sep, i, tree, ignoreFile, ignorePatterns, stack,
                 inflight, results, output, log, matchVars>>

\* the head of the for loop: the next workspace folder, whose directories
\* and ignore file are met now for the first time
NextFolder ==
  /\ pc = "next"
  /\ i < folders
  /\ i' = i + 1
  /\ \E t \in Trees, f \in FileStates :
       /\ tree' = t
       /\ ignoreFile' = f
       /\ log' = NewLogEntry(t, f)
  /\ pc' = "ensure"
  /\ UNCHANGED <<folders, sep, ignorePatterns, stack, inflight, results,
                 output, matchVars>>

\* the for loop has run through every workspace folder
LoopEnds ==
  /\ pc = "next"
  /\ i = folders
  /\ pc' = "write"
  /\ UNCHANGED <<folders, sep, i, tree, ignoreFile, ignorePatterns, stack,
                 inflight, results, output, log, matchVars>>

\* ensureFileTreeIgnoreExists: access succeeds
EnsureFound ==
  /\ pc = "ensure"
  /\ ignoreFile.exists
  /\ pc' = "load"
  /\ UNCHANGED <<folders, sep, i, tree, ignoreFile, ignorePatterns, stack,
                 inflight, results, output, log, matchVars>>

\* ensureFileTreeIgnoreExists: access fails, the default file is written
EnsureCreated ==
  /\ pc = "ensure"
  /\ ~ignoreFile.exists
  /\ ignoreFile' = [exists |-> TRUE, content |-> DEFAULT_FILETREEIGNORE_CONTENT]
  /\ log' = [log EXCEPT !.created = TRUE]
  /\ pc' = "load"
  /\ UNCHANGED <<folders, sep, i, tree, ignorePatterns, stack, inflight,
                 results, output, matchVars>>

\* ensureFileTreeIgnoreExists: access fails and so does writeFile; the error
\* is caught by the folder's catch in extractFileStructure
EnsureCreateFails ==
  /\ pc = "ensure"
  /\ ~ignoreFile.exists
  /\ results' = Append(results, ErrorSection(folders, i, "create"))
  /\ pc' = "next"
  /\ UNCHANGED <<folders, sep, i, tree, ignoreFile, ignorePatterns, stack,
                 inflight, output, log, matchVars>>

\* loadIgnorePatterns: readFile succeeds; getAllFilesAndFolders is called
LoadPatterns ==
  /\ pc = "load"
  /\ ignoreFile.exists
  /\ ignorePatterns' = ParsePatterns(ignoreFile.content)
  /\ log' = [log EXCEPT !.loaded = TRUE,
                        !.patterns = ParsePatterns(ignoreFile.content)]
  /\ stack' = <<NewFrame(<<>>, <<>>)>>
  /\ pc' = "walk"
  /\ UNCHANGED <<folders, sep, i, tree, ignoreFile, inflight, results, output,
                 matchVars>>

\* loadIgnorePatterns lets the readFile error through to the folder's catch
LoadPatternsRethrows ==
  /\ pc = "load"
  /\ log' = [log EXCEPT !.readFailed = TRUE]
  /\ results' = Append(results, ErrorSection(folders, i, "load"))
  /\ pc' = "next"
  /\ UNCHANGED <<folders, sep, i, tree, ignoreFile, ignorePatterns, stack,
                 inflight, output, matchVars>>

\* loadIgnorePatterns: readFile fails, whatever the reason; the patterns are
\* the empty list and getAllFilesAndFolders is called
LoadPatternsFails ==
  /\ pc = "load"
  /\ ignorePatterns' = <<>>
  /\ log' = [log EXCEPT !.loaded = TRUE, !.readFailed = TRUE,
                        !.patterns = <<>>]
  /\ stack' = <<NewFrame(<<>>, <<>>)>>
  /\ pc' = "walk"
  /\ UNCHANGED <<folders, sep, i, tree, ignoreFile, inflight, results, output,
                 matchVars>>

\* fs.promises.writeFile of the joined results succeeds; the clipboard copy
\* after it changes nothing of the state
WriteOutput ==
  /\ pc = "write"
  /\ output' = [written |-> TRUE, sections |-> results]
  /\ pc' = "done"
  /\ UNCHANGED <<folders, sep, i, tree, ignoreFile, ignorePatterns, stack,
                 inflight, results, log, matchVars>>

\* fs.promises.writeFile fails: the error is rethrown to the command handler
WriteOutputFails ==
  /\ pc = "write"
  /\ pc' = "done"
  /\ UNCHANGED <<folders, sep, i, tree, ignoreFile, ignorePatterns, stack,
                 inflight, results, output, log, matchVars>>

(***************************************************************************)
(* getAllFilesAndFolders, one step per await and per loop iteration        *)
(***************************************************************************)
Top == Len(stack)

Entry(k) == stack[k].entries[stack[k].idx]

\* the path, from the folder, of the entry activation k is looking at
EntryFullPath(k) == Append(stack[k].dirPath, Entry(k).name)

\* what shouldIgnorePath answers for that entry
EntryVerdict(k) ==
  ShouldIgnorePath(EntryRelativePath(stack[k].dirPath, Entry(k).name, sep),
                   ignorePatterns)

\* the caller goes on with its loop while the call it made is still running
CallerGoesOn == "loop"

\* await getAllFilesAndFolders(...): the caller is suspended until the call
\* it made has returned or thrown
CallerDuringCall == "await"

\* the stack without its innermost activation, the caller's activation
\* replaced by f
ReturnInto(f) == [SubSeq(stack, 1, Top - 1) EXCEPT ![Top - 1] = f]

\* Activation k (the innermost) throws "Failed to read directory".  The
\* activation that called it catches the error and pushes the error line;
\* thrown by the outermost activation, the error reaches the folder's catch
\* in extractFileStructure, which pushes the folder's error section.
Throws(k, e) ==
  /\ k = Top
  /\ IF k = 1
     THEN /\ stack' = <<>>
          /\ results' = Append(results, ErrorSection(folders, i, "walk"))
          /\ pc' = "next"
     ELSE /\ stack' = ReturnInto(
                [stack[k - 1] EXCEPT
                   !.result = Append(@, ErrorLine(stack[k - 1].indent,
                                                  stack[k].dirPath, sep)),
                   !.pc = "loop"])
          /\ UNCHANGED <<results, pc>>
  /\ log' = e

\* fs.promises.readdir is called and awaited
Readdir(k) ==
  /\ pc = "walk"
  /\ stack[k].pc = "call"
  /\ stack' = [stack EXCEPT ![k].pc = "listing"]
  /\ inflight' = inflight + 1
  /\ log' = [log EXCEPT !.listed = @ \cup {stack[k].dirPath}]
  /\ UNCHANGED <<folders, sep, pc, i, tree, ignoreFile, ignorePatterns,
                 results, output, matchVars>>

\* the listing arrives
ReaddirReturns(k) ==
  /\ pc = "walk"
  /\ stack[k].pc = "listing"
  /\ stack' = [stack EXCEPT ![k].pc = "loop",
                            ![k].entries = tree[stack[k].dirPath]]
  /\ inflight' = inflight - 1
  /\ UNCHANGED <<folders, sep, pc, i, tree, ignoreFile, ignorePatterns,
                 results, output, log, matchVars>>

\* the listing fails (permission denied, directory removed, ...)
ReaddirFails(k) ==
  /\ pc = "walk"
  /\ stack[k].pc = "listing"
  /\ inflight' = inflight - 1
  /\ Throws(k, [log EXCEPT !.failed = @ \cup {stack[k].dirPath}])
  /\ UNCHANGED <<folders, sep, i, tree, ignoreFile, ignorePatterns, output,
                 matchVars>>

\* an entry is at hand: the loop has not run out
AtEntry(k) ==
  /\ pc = "walk"
  /\ stack[k].pc = "loop"
  /\ stack[k].idx <= Len(stack[k].entries)

\* the entry is ignored: continue
SkipIgnored(k) ==
  /\ AtEntry(k)
  /\ EntryVerdict(k) = "true"
  /\ stack' = [stack EXCEPT ![k].idx = @ + 1]
  /\ log' = [log EXCEPT !.visited = @ \cup {EntryFullPath(k)}]
  /\ UNCHANGED <<folders, sep, pc, i, tree, ignoreFile, ignorePatterns,
                 inflight, results, output, matchVars>>

\* shouldIgnorePath throws inside the try block: the outer catch rethrows
MatcherThrows(k) ==
  /\ AtEntry(k)
  /\ EntryVerdict(k) = "throw"
  /\ Throws(k, [log EXCEPT !.matcherThrew = TRUE,
                              !.visited = @ \cup {EntryFullPath(k)}])
  /\ UNCHANGED <<folders, sep, i, tree, ignoreFile, ignorePatterns, inflight,
                 output, matchVars>>

\* a file that is not ignored: its line is pushed
EmitFile(k) ==
  /\ AtEntry(k)
  /\ EntryVerdict(k) = "false"
  /\ ~Entry(k).isDirectory
  /\ stack' = [stack EXCEPT
                 ![k].result = Append(@, EntryLine(stack[k].indent, Entry(k).name)),
                 ![k].idx = @ + 1]
  /\ log' = [log EXCEPT !.emitted = @ \cup {EntryFullPath(k)},
                        !.visited = @ \cup {EntryFullPath(k)}]
  /\ UNCHANGED <<folders, sep, pc, i, tree, ignoreFile, ignorePatterns,
                 inflight, results, output, matchVars>>

\* a directory that is not ignored: its line is pushed and the function
\* calls itself on it with a deeper indent
EnterDirectory(k) ==
  /\ AtEntry(k)
  /\ EntryVerdict(k) = "false"
  /\ Entry(k).isDirectory
  /\ stack' = Append(
       [stack EXCEPT
          ![k].result = Append(@, EntryLine(stack[k].indent, Entry(k).name)),
          ![k].idx = @ + 1,
          ![k].pc = CallerDuringCall],
       NewFrame(EntryFullPath(k), DeeperIndent(stack[k].indent)))
  /\ log' = [log EXCEPT !.emitted = @ \cup {EntryFullPath(k)},
                        !.visited = @ \cup {EntryFullPath(k)}]
  /\ UNCHANGED <<folders, sep, pc, i, tree, ignoreFile, ignorePatterns,
                 inflight, results, output, matchVars>>

\* the loop of a nested activation has run out: its result is concatenated
\* to its caller's
ReturnToParent(k) ==
  /\ pc = "walk"
  /\ k = Top
  /\ k > 1
  /\ stack[k].pc = "loop"
  /\ stack[k].idx > Len(stack[k].entries)
  /\ stack' = ReturnInto([stack[k - 1] EXCEPT !.result = @ \o stack[k].result,
                                              !.pc = "loop"])
  /\ UNCHANGED <<folders, sep, pc, i, tree, ignoreFile, ignorePatterns,
                 inflight, results, output, log, matchVars>>

\* the loop of the outermost activation has run out: extractFileStructure
\* pushes the folder's section and turns to the next folder
ReturnToCaller ==
  /\ pc = "walk"
  /\ Top = 1
  /\ stack[1].pc = "loop"
  /\ stack[1].idx > Len(stack[1].entries)
  /\ results' = Append(results, TreeSection(folders, i, stack[1].result))
  /\ stack' = <<>>
  /\ pc' = "next"
  /\ UNCHANGED <<folders, sep, i, tree, ignoreFile, ignorePatterns, inflight,
                 output, log, matchVars>>

Next ==
  \/ NoWorkspace
  \/ Cancelled
  \/ Begin
  \/ NextFolder
  \/ LoopEnds
  \/ EnsureFound
  \/ EnsureCreated
  \/ EnsureCreateFails
  \/ LoadPatterns
  \/ LoadPatternsFails
  \/ \E k \in DOMAIN stack : Readdir(k)
  \/ \E k \in DOMAIN stack : ReaddirReturns(k)
  \/ \E k \in DOMAIN stack : ReaddirFails(k)
  \/ \E k \in DOMAIN stack : SkipIgnored(k)
  \/ \E k \in DOMAIN stack : MatcherThrows(k)
  \/ \E k \in DOMAIN stack : EmitFile(k)
  \/ \E k \in DOMAIN stack : EnterDirectory(k)
  \/ \E k \in DOMAIN stack : ReturnToParent(k)
  \/ ReturnToCaller
  \/ WriteOutput
  \/ WriteOutputFails

Spec == Init /\ [][Next]_vars

(***************************************************************************)
(* The matcher on its own: every path and pattern list within the bounds   *)
(***************************************************************************)
Paths == SeqsUpTo(PathChars, MaxPathLen)

\* a line that survives trim and filter: not empty, no white space at its
\* ends (PatChars has none), not a comment (PatChars has no "#")
Patterns == SeqsUpTo(PatChars, MaxPatLen) \ {<<>>}

\* patterns of the lists of two and three: one or two of each kind, a
\* wildcard with a metacharacter and one that is no valid RegExp
ListPatterns ==
  {<<"a">>, <<"a", "/">>, <<"*", "b">>, <<"*", ".">>, <<"*", "(">>,
   <<"a", "/", "b">>}

PatternLists ==
  {<<>>} \cup {<<p>> : p \in Patterns}
         \cup {<<p, q>> : p \in ListPatterns, q \in ListPatterns}

InitMatch ==
  /\ folders = 0
  /\ sep = "/"
  /\ pc = "start"
  /\ i = 0
  /\ tree = TreeEmpty
  /\ ignoreFile = [exists |-> FALSE, content |-> <<>>]
  /\ ignorePatterns = <<>>
  /\ stack = <<>>
  /\ inflight = 0
  /\ results = <<>>
  /\ output = [written |-> FALSE, sections |-> <<>>]
  /\ log = NewLogEntry(TreeEmpty, [exists |-> FALSE, content |-> <<>>])
  /\ mPath \in Paths
  /\ mPatterns \in PatternLists
  /\ mResult = "none"

\* shouldIgnorePath(mPath, mPatterns) is called
Match ==
  /\ mResult = "none"
  /\ mResult' = ShouldIgnorePath(mPath, mPatterns)
  /\ UNCHANGED <<walkVars, mPath, mPatterns>>

NextMatch == Match

SpecMatch == InitMatch /\ [][NextMatch]_vars

(***************************************************************************)
(* Reference notions the properties are stated with                        *)
(***************************************************************************)
\* n spaces
RECURSIVE Spaces(_)
Spaces(n) == IF n = 0 THEN <<>> ELSE Append(Spaces(n - 1), " ")

\* the root-relative path of an entry, "/" between its names
RootRelative(fullPath) == JoinNames(fullPath, "/")

\* the pattern matcher ignores the entry at fullPath
Ignored(fullPath, patterns) ==
  ShouldIgnorePath(RootRelative(fullPath), patterns) = "true"

\* the entry at fullPath or a directory above it is ignored
IgnoredFromAbove(fullPath, patterns) ==
  \E n \in 1..Len(fullPath) : Ignored(SubSeq(fullPath, 1, n), patterns)

\* the paths of all entries of a tree
EntryPaths(t) ==
  UNION {{Append(d, t[d][k].name) : k \in 1..Len(t[d])} : d \in DOMAIN t}

\* the pre-order listing of the entries k, k+1, ... of directory dir and of
\* what is beneath them: a line per entry that is not ignored, two spaces
\* per level
RECURSIVE PreOrder(_, _, _, _, _)
PreOrder(t, dir, k, depth, patterns) ==
  IF k > Len(t[dir]) THEN <<>>
  ELSE LET e == t[dir][k]
           p == Append(dir, e.name)
       IN  IF Ignored(p, patterns)
           THEN PreOrder(t, dir, k + 1, depth, patterns)
           ELSE <<EntryLine(Spaces(2 * depth), e.name)>>
                \o (IF e.isDirectory
                    THEN PreOrder(t, p, 1, depth + 1, patterns)
                    ELSE <<>>)
                \o PreOrder(t, dir, k + 1, depth, patterns)

\* the tree with the directories of D emptied
Emptied(t, D) == [d \in DOMAIN t |-> IF d \in D THEN <<>> ELSE t[d]]

IsEntryLine(line) == line.kind = "entry"

\* the section pushed for the folder just processed
Section == results[i]

\* the folder's processing has just ended
FolderDone == pc = "next" /\ i >= 1

(***************************************************************************)
(* Properties of the walk and of the command, under Spec                   *)
(***************************************************************************)
\* C1: an entry whose root-relative path the matcher ignores gets no line,
\* and when it is a directory it is never listed and nothing beneath it
\* gets a line, at every depth and for every pattern list; the lines of the
\* finished walk are exactly those of the entries that got one.
C1_IgnoredLeavesNoLine ==
  /\ \A p \in EntryPaths(tree) :
       (pc \in {"walk", "next"} /\ IgnoredFromAbove(p, ignorePatterns))
         => p \notin log.emitted /\ p \notin log.listed
  /\ (FolderDone /\ Section.kind = "tree")
       => Len(SelectSeq(Section.body, IsEntryLine)) = Cardinality(log.emitted)

\* a finished walk over the deep tree that met the ignored a/b two levels
\* down and still produced lines
C1_Witness ==
  /\ FolderDone
  /\ tree = TreeDeep
  /\ sep = "\\"
  /\ Section.kind = "tree"
  /\ <<NameA, NameB>> \in log.visited
  /\ Ignored(<<NameA, NameB>>, ignorePatterns)
  /\ <<NameA, NameA>> \in log.emitted

\* C2: when no listing fails, the walk of a root returns one line per entry
\* that is not ignored, in pre-order in listing order, each the bare name
\* after two spaces per level.
C2_PreOrderWhenNoListingFails ==
  (FolderDone /\ log.loaded /\ log.failed = {})
    => /\ Section.kind = "tree"
       /\ Section.body = PreOrder(tree, <<>>, 1, 0, log.patterns)

\* the same, for pattern lists the matcher does not throw on
C2_PreOrderWhenNothingThrows ==
  (FolderDone /\ log.loaded /\ log.failed = {} /\ ~log.matcherThrew)
    => /\ Section.kind = "tree"
       /\ Section.body = PreOrder(tree, <<>>, 1, 0, log.patterns)

\* C3: when the listing of a subdirectory D below the root fails, the walk
\* still completes; D's name line is followed directly by the one error line
\* for D, two spaces deeper than D's line; and without the error lines the
\* result is the listing of the tree with the failing directories emptied,
\* so every sibling before and after D appears with its subtree.
C3_NestedFailureIsAbsorbed ==
  (FolderDone /\ log.failed # {} /\ <<>> \notin log.failed)
    => /\ Section.kind = "tree"
       /\ \A D \in log.failed :
            LET at == {n \in 1..Len(Section.body) :
                         /\ Section.body[n].kind = "error"
                         /\ Section.body[n].text = JoinNames(D, sep)}
            IN  /\ Cardinality(at) = 1
                /\ \A n \in at :
                     /\ Section.body[n].indent = Spaces(2 * Len(D))
                     /\ n > 1
                     /\ Section.body[n - 1] =
                          EntryLine(Spaces(2 * (Len(D) - 1)), D[Len(D)])
       /\ Len(Section.body) =
            Len(SelectSeq(Section.body, IsEntryLine)) + Cardinality(log.failed)
       /\ SelectSeq(Section.body, IsEntryLine) =
            PreOrder(Emptied(tree, log.failed), <<>>, 1, 0, log.patterns)

\* the listing of a/b failed two levels down, with a/a before it and a/ab
\* after it in the result
C3_Witness ==
  /\ FolderDone
  /\ tree = TreeDeep
  /\ log.failed = {<<NameA, NameB>>}
  /\ Section.kind = "tree"
  /\ {<<NameA, NameA>>, <<NameA, NameAB>>, <<NameAB>>} \subseteq log.emitted

\* C4: the walk of a folder fails if and only if the listing of the folder
\* itself fails.
C4_FailsIffOwnListingFails ==
  (FolderDone /\ log.loaded)
    => (Section.kind = "error" <=> <<>> \in log.failed)

\* C5: one section per folder in folder order; with more than one folder
\* every section, of a success or of a failure, carries the banner of its
\* folder, with one folder none does; the loop ends, and the file is written,
\* with a section for every folder.
C5_OneSectionPerFolder ==
  /\ pc \in {"ensure", "load", "walk"} => Len(results) = i - 1
  /\ pc = "next" => Len(results) = i
  /\ (pc = "write" \/ output.written) => Len(results) = folders
  /\ output.written => output.sections = results
  /\ \A k \in 1..Len(results) :
       results[k].banner = (IF folders > 1 THEN <<k>> ELSE <<>>)

\* two folders, the first failed, the second's tree follows it
C5_Witness ==
  /\ output.written
  /\ folders = 2
  /\ output.sections[1].kind = "error"
  /\ output.sections[2].kind = "tree"
  /\ output.sections[2].body # <<>>

\* C6 as stated: whenever the ignore file is absent or cannot be read, the
\* folder is walked with the empty pattern list, no entry is ignored and the
\* folder's section is not an error of the ignore file.
C6_AnySourceFailureDegrades ==
  (FolderDone /\ (~log.fileFound \/ log.readFailed))
    => /\ log.loaded
       /\ log.patterns = <<>>
       /\ <<>> \in log.listed
       /\ log.visited = log.emitted
       /\ Section.cause # "create"

\* C6 amended: a failure of loadIgnorePatterns' read degrades to the empty
\* pattern list, the folder is walked, no entry is ignored and the section
\* is an error only when the folder's own listing failed; an absent file is
\* first created with the default content, whose patterns apply when it is
\* then read, and the folder fails when the file cannot be created.
C6_ReadFailureDegrades ==
  /\ (pc \in {"walk", "next"} /\ log.readFailed)
       => /\ log.loaded
          /\ ignorePatterns = <<>>
          /\ log.visited = log.emitted
  /\ (FolderDone /\ log.readFailed)
       => /\ <<>> \in log.listed
          /\ Section.kind = "error" <=> <<>> \in log.failed
          /\ Section.kind = "error" => Section.cause = "walk"
  /\ (FolderDone /\ ~log.fileFound)
       => \/ ~log.created /\ ~log.loaded /\ Section.cause = "create"
          \/ /\ log.created
             /\ log.loaded
             /\ ~log.readFailed
                  => log.patterns = ParsePatterns(DEFAULT_FILETREEIGNORE_CONTENT)

\* the read failed and the folder was walked all the same, every entry of
\* the example tree listed
C6_Witness ==
  /\ FolderDone
  /\ log.readFailed
  /\ log.fileFound
  /\ tree = TreeExample
  /\ Section.kind = "tree"
  /\ Len(Section.body) = 3

\* C10: at most one directory listing is in flight; every activation but the
\* innermost is suspended in its call, so a subtree is finished before the
\* next sibling is looked at; a folder's patterns are loaded and its walk
\* runs with the sections of all folders before it pushed and nothing of
\* them still running; the file is written after the last folder.
C10_OneListingAtATime ==
  /\ inflight \in {0, 1}
  /\ \A k \in 1..(Top - 1) : stack[k].pc = "await"
  /\ inflight = 1 <=> (Top >= 1 /\ stack[Top].pc = "listing")
  /\ pc \in {"ensure", "load", "next", "write", "done", "start"}
       => stack = <<>> /\ inflight = 0
  /\ pc \in {"ensure", "load", "walk"} => Len(results) = i - 1
  /\ pc = "walk" => stack # <<>>
  /\ output.written => pc = "done" /\ i = folders /\ Len(results) = folders

\* the second folder, a listing in flight two levels down
C10_Witness ==
  /\ i = 2
  /\ pc = "walk"
  /\ Top = 3
  /\ inflight = 1
  /\ stack[1].idx = 3

(***************************************************************************)
(* Properties of the matcher, under SpecMatch                              *)
(***************************************************************************)
\* p is the text s starts with
IsPrefixOf(p, s) == \E n \in 0..Len(s) : SubSeq(s, 1, n) = p

Last(s) == s[Len(s)]

\* the matcher has answered for a list of the one pattern P
AnsweredSingle == mResult # "none" /\ Len(mPatterns) = 1

IsDirectoryPattern(P) == Last(P) = "/"

IsWildcardPattern(P) == Last(P) # "/" /\ \E k \in 1..Len(P) : P[k] = "*"

IsExactPattern(P) == Last(P) # "/" /\ \A k \in 1..Len(P) : P[k] # "*"

\* P from its k-th character on matches s from position j on to some
\* position: "*" stands for any run of characters, also the empty one; "."
\* for any one character when dotIsAny, for itself otherwise; every other
\* character for itself
RECURSIVE WildAt(_, _, _, _, _)
WildAt(P, k, s, j, dotIsAny) ==
  IF k > Len(P) THEN TRUE
  ELSE IF P[k] = "*"
       THEN \E m \in j..(Len(s) + 1) : WildAt(P, k + 1, s, m, dotIsAny)
       ELSE /\ j <= Len(s)
            /\ (P[k] = s[j] \/ (dotIsAny /\ P[k] = "."))
            /\ WildAt(P, k + 1, s, j + 1, dotIsAny)

\* P matches somewhere inside s
WildInside(P, s, dotIsAny) ==
  \E j \in 1..(Len(s) + 1) : WildAt(P, 1, s, j, dotIsAny)

\* C7: a single directory pattern P ignores p if and only if p starts with P
\* or with P less its trailing "/".
C7_DirectoryPattern ==
  (AnsweredSingle /\ IsDirectoryPattern(mPatterns[1]))
    => mResult = (IF \/ IsPrefixOf(mPatterns[1], mPath)
                     \/ IsPrefixOf(SliceDropLast(mPatterns[1]), mPath)
                  THEN "true" ELSE "false")

\* "a/" ignores the bare "a"
C7_Witness ==
  /\ mPatterns = << <<"a", "/">> >>
  /\ mPath = <<"a">>
  /\ mResult = "true"

\* C8 as stated: a single wildcard pattern P ignores p if and only if P, each
\* "*" any run of characters and every other character itself, matches
\* somewhere inside p.
C8_WildcardLiteralSearch ==
  (AnsweredSingle /\ IsWildcardPattern(mPatterns[1]))
    => (mResult = "true" <=> WildInside(mPatterns[1], mPath, FALSE))

\* C8 amended: the other characters keep their meaning in a regular
\* expression: "." matches any one character, and a pattern with "(" is no
\* regular expression, on which the matcher throws; otherwise it ignores p
\* if and only if the pattern matches somewhere inside p.
C8_WildcardRegExpSearch ==
  (AnsweredSingle /\ IsWildcardPattern(mPatterns[1]))
    => mResult = (IF \E k \in 1..Len(mPatterns[1]) : mPatterns[1][k] = "("
                  THEN "throw"
                  ELSE IF WildInside(mPatterns[1], mPath, TRUE)
                       THEN "true" ELSE "false")

\* "a*b" ignores ".ab": the match starts after the first character
C8_Witness ==
  /\ mPatterns = << <<"a", "*", "b">> >>
  /\ mPath = <<".", "a", "b">>
  /\ mResult = "true"

\* C9: a single exact pattern P ignores p if and only if p is P or starts
\* with P and "/"; a list of patterns ignores p exactly when at least one of
\* its patterns does, the empty list never.
C9_ExactPatternAndAnyOf ==
  /\ (AnsweredSingle /\ IsExactPattern(mPatterns[1]))
       => (mResult = "true"
             <=> (mPath = mPatterns[1]
                    \/ IsPrefixOf(mPatterns[1] \o <<"/">>, mPath)))
  /\ mResult # "none"
       => (mResult = "true"
             <=> \E k \in 1..Len(mPatterns) :
                   ShouldIgnorePath(mPath, <<mPatterns[k]>>) = "true")

\* the same, for the lists on none of whose patterns the matcher throws
C9_WhenNothingThrows ==
  (\A k \in 1..Len(mPatterns) :
      ShouldIgnorePath(mPath, <<mPatterns[k]>>) # "throw")
    => C9_ExactPatternAndAnyOf

====
